---- MODULE Spec2Model ----
(***************************************************************************)
(* Model of agent.py: five diagnostic operations (diagnose_git_setup,      *)
(* test_simple_clone, get_github_file, fix_git_setup, create_file_via_api) *)
(* that run external commands and HTTP requests one after the other and    *)
(* map the outcomes to a result record.                                    *)
(*                                                                         *)
(* A repository URL is a sequence of text pieces ("https://", "github.com",*)
(* "/", ".git", "o", "n", ...): the string is their concatenation.  None   *)
(* of the pieces overlaps another one, so the regular expression of the    *)
(* source matches the string exactly where the piece-wise matcher below    *)
(* matches the sequence.                                                   *)
(*                                                                         *)
(* An entry of a report list is identified by the source line that appends *)
(* it: the text of the entry is the literal of that line.                  *)
(***************************************************************************)
EXTENDS Integers, Sequences, FiniteSets, TLC

\* ------------------------------------------------------------------ bounds
MaxUrlLen == 5    \* pieces between the protocol prefix and the suffix of a URL
MaxTextLen == 1   \* code points of a file content
MaxTmpDirs == 1   \* directory names of the temporary-directory namespace

\* ------------------------------------------------------- small input sets
Prefixes == {<<>>, <<"http://">>, <<"https://">>}
GitSuffixes == {<<>>, <<".git">>, <<".git", ".git">>}
SlashSuffixes == {<<>>, <<"/">>}
PathSuffixes == {<<>>, <<"/">>, <<"/", "tree">>}
MidPieces == {"github.com", "/", "o", "n"}

SeqsUpTo(S, n) == UNION {[1..k -> S] : k \in 0..n}

\* The URLs the operations are called with when they run to their end.
CallUrls ==
  { <<"https://", "github.com", "/", "o", "/", "n">>,
    <<"github.com", "/", "o", "/", "n", ".git", "/">>,
    <<"not-a-url">>,
    <<"https://", "github.com", "/", "o">> }

\* The URLs the parsers are applied to: every piece sequence of the shape
\* prefix . middle . suffix with a middle of at most MaxUrlLen pieces; the
\* suffix is ".git" (once or twice), "/" or a further path segment.
ParseUrls ==
  {pre \o mid \o g \o sl : pre \in Prefixes, mid \in SeqsUpTo(MidPieces, MaxUrlLen),
                           g \in GitSuffixes, sl \in PathSuffixes}
    \cup CallUrls

\* --------------------------------------------------------- the environment
\* os.environ restricted to GITHUB_TOKEN: a set of (name, value) pairs.
Environs == { {}, {<<"GITHUB_TOKEN", "">>}, {<<"GITHUB_TOKEN", "ghp_tok">>} }

\* os.environ.get(name): the set of values bound to name (empty for None).
os_environ_get(environ, name) == {p[2] : p \in {q \in environ : q[1] = name}}

\* `if not github_token` is false: the value is neither None nor "".
\* `if github_token is None` instead: the empty string passes.
TruthyEmptyAllowed(value) == value # {}
Truthy(value) == \E v \in value : v # ""

\* ------------------------------------------------------ URL parsing (re)
NotProtocol(piece) == piece \notin {"https://", "http://"}

\* repository_url.replace('https://', '').replace('http://', '')
StripProtocols(url) == SelectSeq(url, NotProtocol)

NoSlash(s, a, b) == \A k \in a..b : s[k] # "/"

\* The pattern without its end: anything may follow the name.
TailMatchesAnything(t) == TRUE
\* (?:\.git)?/?$ : what may follow the repository name
TailMatches(t) == t \in {<<>>, <<".git">>, <<"/">>, <<".git", "/">>}

\* github\.com/([^/]+)/([^/]+?)(?:\.git)?/?$ tried from piece i.  OwnerLens: the
\* lengths K the first group may take, pieces without "/" followed by "/".
OwnerLens(s, i) ==
  IF i + 1 > Len(s) THEN {}
  ELSE IF s[i] # "github.com" \/ s[i + 1] # "/" THEN {}
  ELSE {K \in 1..(Len(s) - i - 2) : NoSlash(s, i + 2, i + 1 + K) /\ s[i + 2 + K] = "/"}

\* The lengths L the second group may take when it starts at piece n1: pieces
\* without "/" followed by what the rest of the pattern matches.
NameLens(s, n1) ==
  {L \in 1..(Len(s) - n1 + 1) :
     NoSlash(s, n1, n1 + L - 1) /\ TailMatches(SubSeq(s, n1 + L, Len(s)))}

\* The ways the pattern matches from piece i: pairs (K, L).
MatchesAt(s, i) ==
  {kl \in OwnerLens(s, i) \X (1..Len(s)) : kl[2] \in NameLens(s, i + 3 + kl[1])}

Max(S) == CHOOSE x \in S : \A y \in S : y <= x
Min(S) == CHOOSE x \in S : \A y \in S : x <= y

\* The groups with a greedy second group, ([^/]+) for ([^/]+?).
GroupsAtGreedy(s, i) ==
  LET M == MatchesAt(s, i)
      K == Max({kl[1] : kl \in M})
      L == Max({kl[2] : kl \in {m \in M : m[1] = K}})
  IN  <<SubSeq(s, i + 2, i + 1 + K), SubSeq(s, i + 3 + K, i + 2 + K + L)>>
\* match.groups() of the match at piece i: the first group is greedy (the
\* longest K that leads to a match), the second one lazy (the shortest L).
GroupsAt(s, i) ==
  LET M == MatchesAt(s, i)
      K == Max({kl[1] : kl \in M})
      L == Min({kl[2] : kl \in {m \in M : m[1] = K}})
  IN  <<SubSeq(s, i + 2, i + 1 + K), SubSeq(s, i + 3 + K, i + 2 + K + L)>>

\* re.search(url_pattern, s): the set holding the groups of the leftmost
\* match, empty when there is none (match is None).
re_search(s) ==
  LET starts == {i \in 1..Len(s) : MatchesAt(s, i) # {}}
  IN  IF starts = {} THEN {} ELSE {GroupsAt(s, Min(starts))}

\* The three copies of the parsing code.
ParseClone(repository_url) == re_search(StripProtocols(repository_url))
ParseRead(repository_url) == re_search(StripProtocols(repository_url))
ParseWrite(repository_url) == re_search(StripProtocols(repository_url))

\* ------------------------------------------------- text, UTF-8 and base64
\* A text is a sequence of code points; 55296 is a lone surrogate, which a
\* Python str can hold and UTF-8 cannot encode.
CodePoints == {65, 233, 8364, 55296}
Texts == SeqsUpTo(CodePoints, MaxTextLen)

IsSurrogate(cp) == cp >= 55296 /\ cp <= 57343

Utf8Bytes(cp) ==
  IF cp < 128 THEN <<cp>>
  ELSE IF cp < 2048 THEN <<192 + (cp \div 64), 128 + (cp % 64)>>
  ELSE IF cp < 65536
    THEN <<224 + (cp \div 4096), 128 + ((cp \div 64) % 64), 128 + (cp % 64)>>
  ELSE <<240 + (cp \div 262144), 128 + ((cp \div 4096) % 64),
         128 + ((cp \div 64) % 64), 128 + (cp % 64)>>

RECURSIVE Utf8Concat(_)
Utf8Concat(text) ==
  IF text = <<>> THEN <<>> ELSE Utf8Bytes(Head(text)) \o Utf8Concat(Tail(text))

\* str.encode('utf-8'): the set holding the bytes, empty when it raises
\* UnicodeEncodeError.
str_encode(text) ==
  IF \E k \in 1..Len(text) : IsSurrogate(text[k]) THEN {} ELSE {Utf8Concat(text)}

IsCont(b) == b >= 128 /\ b <= 191
PrependTo(x, S) == {<<x>> \o t : t \in S}

\* bytes.decode('utf-8'): the set holding the text, empty when it raises
\* UnicodeDecodeError.
RECURSIVE bytes_decode(_)
bytes_decode(b) ==
  IF b = <<>> THEN {<<>>}
  ELSE IF b[1] < 128 THEN PrependTo(b[1], bytes_decode(Tail(b)))
  ELSE IF b[1] >= 194 /\ b[1] <= 223 /\ Len(b) >= 2 /\ IsCont(b[2])
    THEN PrependTo((b[1] - 192) * 64 + (b[2] - 128), bytes_decode(SubSeq(b, 3, Len(b))))
  ELSE IF b[1] >= 224 /\ b[1] <= 239 /\ Len(b) >= 3 /\ IsCont(b[2]) /\ IsCont(b[3])
    THEN LET cp == (b[1] - 224) * 4096 + (b[2] - 128) * 64 + (b[3] - 128)
         IN  IF cp < 2048 \/ IsSurrogate(cp) THEN {}
             ELSE PrependTo(cp, bytes_decode(SubSeq(b, 4, Len(b))))
  ELSE IF b[1] >= 240 /\ b[1] <= 244 /\ Len(b) >= 4
          /\ IsCont(b[2]) /\ IsCont(b[3]) /\ IsCont(b[4])
    THEN LET cp == (b[1] - 240) * 262144 + (b[2] - 128) * 4096
                   + (b[3] - 128) * 64 + (b[4] - 128)
         IN  IF cp < 65536 \/ cp > 1114111 THEN {}
             ELSE PrependTo(cp, bytes_decode(SubSeq(b, 5, Len(b))))
  ELSE {}

\* A base64 string is a sequence of symbols: 0..63 the alphabet, Pad "=",
\* NewLine a line break.
Pad == 64
NewLine == 65

RECURSIVE b64encode(_)
\* base64.b64encode
b64encode(b) ==
  IF b = <<>> THEN <<>>
  ELSE IF Len(b) = 1 THEN <<(b[1] \div 4), (b[1] % 4) * 16, Pad, Pad>>
  ELSE IF Len(b) = 2
    THEN <<(b[1] \div 4), (b[1] % 4) * 16 + (b[2] \div 16), (b[2] % 16) * 4, Pad>>
  ELSE <<(b[1] \div 4), (b[1] % 4) * 16 + (b[2] \div 16),
         (b[2] % 16) * 4 + (b[3] \div 64), (b[3] % 64)>> \o b64encode(SubSeq(b, 4, Len(b)))

IsB64Symbol(c) == c <= Pad

\* The bytes of the quads of s; a quad that is no legal quad yields {}.
RECURSIVE DecodeQuads(_)
DecodeQuads(s) ==
  IF s = <<>> THEN {<<>>}
  ELSE IF Len(s) < 4 \/ s[1] = Pad \/ s[2] = Pad THEN {}
  ELSE IF s[3] = Pad
    THEN IF s[4] = Pad /\ Len(s) = 4 THEN {<<s[1] * 4 + (s[2] \div 16)>>} ELSE {}
  ELSE IF s[4] = Pad
    THEN IF Len(s) = 4
         THEN {<<s[1] * 4 + (s[2] \div 16), (s[2] % 16) * 16 + (s[3] \div 4)>>}
         ELSE {}
  ELSE {<<s[1] * 4 + (s[2] \div 16), (s[2] % 16) * 16 + (s[3] \div 4),
          (s[3] % 4) * 64 + s[4]>> \o t : t \in DecodeQuads(SubSeq(s, 5, Len(s)))}

\* base64.b64decode(s): symbols outside the alphabet are discarded first; the
\* set holding the bytes, empty when it raises binascii.Error.
b64decode(s) == DecodeQuads(SelectSeq(s, IsB64Symbol))

\* ------------------------------------------------------------------- state
VARIABLES
  environ,        \* os.environ (GITHUB_TOKEN)
  defaultBranch,  \* the hosted repository's default branch
  store,          \* the hosted repository o/n: (branch, path, bytes) triples
  tmpdirs,        \* the temporary directories that exist
  created,        \* the (owner/repo, path, text) of the writes that returned success
  pc,             \* position of the running operation; "idle" between calls
  op,             \* the running operation
  args,           \* its arguments
  owner_repo,     \* match.groups(): <<owner, repo>>
  report,         \* the record under construction (diagnosis, results, fixes_applied)
  temp_dir,       \* test_simple_clone's temp_dir (0: not created)
  exc,            \* the exception caught by the operation's outermost handler
  calls,          \* the external calls of the invocation: kind, source line, timeout
  result          \* the returned record

envVars == <<environ, defaultBranch, store, tmpdirs, created>>
frameVars == <<pc, op, args, owner_repo, report, temp_dir, exc, calls, result>>
vars == <<environ, defaultBranch, store, tmpdirs, created,
          pc, op, args, owner_repo, report, temp_dir, exc, calls, result>>

NoTimeout == 0
NoArgs == [repository_url |-> <<>>, file_path |-> "", branch |-> "", file_content |-> <<>>]
NoReport == [status |-> "none"]
NoResult == [status |-> "none"]

Paths == {"README.md", "logo.png", "new.txt"}
BranchArgs == {"main", "master", "dev"}
TheRepo == << <<"o">>, <<"n">> >>

\* The hosted repository before any write: a text file and a binary file on
\* the default branch and on dev.
InitialStore(default) ==
  {<<b, "README.md", <<65>> >> : b \in {default, "dev"}}
    \cup {<<b, "logo.png", <<255>> >> : b \in {default, "dev"}}

Init ==
  /\ environ \in Environs
  /\ defaultBranch \in {"main", "master"}
  /\ store = InitialStore(defaultBranch)
  /\ tmpdirs = {}
  /\ created = {}
  /\ pc = "idle"
  /\ op = "none"
  /\ args = NoArgs
  /\ owner_repo = <<>>
  /\ report = NoReport
  /\ temp_dir = 0
  /\ exc = ""
  /\ calls = {}
  /\ result = NoResult

\* An operation is entered: its frame is fresh.
Enter(name, a) ==
  /\ pc = "idle"
  /\ op' = name
  /\ args' = a
  /\ UNCHANGED envVars

\* `return record`
ReturnRecord(record) ==
  /\ pc' = "done"
  /\ result' = record

\* The caller takes the record; the frame is discarded.
Return ==
  /\ pc = "done"
  /\ pc' = "idle"
  /\ op' = "none"
  /\ args' = NoArgs
  /\ owner_repo' = <<>>
  /\ report' = NoReport
  /\ temp_dir' = 0
  /\ exc' = ""
  /\ calls' = {}
  /\ result' = NoResult
  /\ UNCHANGED envVars

Call(kind, line, timeout) == [kind |-> kind, line |-> line, timeout |-> timeout]

\* --------------------------------------------------- the hosted API (HTTP)
\* A response: exc names the exception requests raised ("" for none), json is
\* the set holding the decoded body (empty when response.json() raises).
Response(code, body) == [exc |-> "", status_code |-> code, json |-> body]
Raised(name) == [exc |-> name, status_code |-> 0, json |-> {}]

\* What a request may end in whatever the server holds: a transport fault, a
\* server error, a 200 whose body is not JSON.
HttpFaults == {Raised("ConnectionError"), Raised("Timeout"), Response(500, {}), Response(200, {})}

FileAt(st, branch, path) == {t[3] : t \in {q \in st : q[1] = branch /\ q[2] = path}}

\* GET /repos/{owner}/{repo}/contents/{path}[?ref=branch] as the API answers it:
\* ref is the set holding the branch qualifier (empty: the default branch).
ContentsGet(st, default, repo, path, ref) ==
  LET branch == IF ref = {} THEN default ELSE CHOOSE b \in ref : TRUE
      found == IF repo = TheRepo THEN FileAt(st, branch, path) ELSE {}
  IN  IF found = {} THEN Response(404, {})
      ELSE LET bytes == CHOOSE b \in found : TRUE
           IN  Response(200, {[encoding |-> "base64",
                               content |-> b64encode(bytes) \o <<NewLine>>,
                               size |-> Len(bytes)]})

\* PUT /repos/{owner}/{repo}/contents/{path} with no sha and no branch as the API
\* answers it: 201 for a path that is new on the default branch, 422 for one
\* that exists (the sha is missing), 404 for another repository.
ContentsPutStatus(st, default, repo, path) ==
  IF repo # TheRepo THEN 404
  ELSE IF FileAt(st, default, path) = {} THEN 201 ELSE 422

ContentsPutStore(st, default, repo, path, encoded) ==
  IF ContentsPutStatus(st, default, repo, path) = 201 /\ b64decode(encoded) # {}
    THEN st \cup {<<default, path, CHOOSE b \in b64decode(encoded) : TRUE>>}
    ELSE st

\* ---------------------------------------------------------- get_github_file
\* The handler re-raising: the fault leaves the operation.
get_github_file_exceptRaises(e) == [status |-> "raised", exception |-> e]
\* except Exception as e (lines 320-324)
get_github_file_except(e) ==
  [status |-> "error", error_message |-> <<"Unexpected error: ", <<e>> >>]

\* Lines 252-272: the token check and the URL parse.
get_github_file(repository_url, file_path, branch) ==
  /\ Enter("get_github_file", [NoArgs EXCEPT !.repository_url = repository_url,
                                             !.file_path = file_path,
                                             !.branch = branch])
  /\ LET github_token == os_environ_get(environ, "GITHUB_TOKEN")
         match == ParseRead(repository_url)
     IN  IF ~Truthy(github_token)
           THEN /\ ReturnRecord(
                     [status |-> "error",
                      error_message |-> <<"GitHub token not found. Please set GITHUB_TOKEN in your .env file.", <<>> >>,
                      instructions |-> "Get a token from https://github.com/settings/tokens with 'repo' scope"])
                /\ owner_repo' = <<>>
         ELSE IF match = {}
           THEN /\ ReturnRecord(
                     [status |-> "error",
                      error_message |-> <<"Invalid GitHub URL format: ", repository_url>>,
                      example |-> "Use format: https://github.com/owner/repo"])
                /\ owner_repo' = <<>>
         ELSE /\ pc' = "get_request"
              /\ owner_repo' = CHOOSE g \in match : TRUE
              /\ result' = NoResult
  /\ UNCHANGED <<report, temp_dir, exc, calls>>

\* The qualifier appended for every branch.
RefAlways(branch) == {branch}
\* Lines 275-277: the branch qualifier, appended only when branch != "main".
Ref(branch) == IF branch # "main" THEN {branch} ELSE {}

\* Lines 286-318 for a response: the exception raised on the way ("" for none)
\* and the record returned.
get_github_file_response(a, repo, response) ==
  IF response.status_code = 200
    THEN IF response.json = {}
           THEN [exc |-> "JSONDecodeError", record |-> NoResult]
         ELSE LET data == CHOOSE d \in response.json : TRUE
                  bytes == IF data.encoding = "base64" THEN b64decode(data.content) ELSE {}
                  texts == IF data.encoding = "base64"
                             THEN UNION {bytes_decode(b) : b \in bytes}
                             ELSE {data.content}
              IN  IF data.encoding = "base64" /\ bytes = {}
                    THEN [exc |-> "binascii.Error", record |-> NoResult]
                  ELSE IF texts = {}
                    THEN [exc |-> "UnicodeDecodeError", record |-> NoResult]
                  ELSE [exc |-> "",
                        record |-> [status |-> "success",
                                    repository |-> repo,
                                    file_path |-> a.file_path,
                                    branch |-> a.branch,
                                    size |-> data.size,
                                    content |-> CHOOSE t \in texts : TRUE,
                                    message |-> "Successfully read"]]
  ELSE IF response.status_code = 404
    THEN [exc |-> "",
          record |-> [status |-> "error",
                      error_message |-> <<"File not found: ", <<a.file_path>> >>,
                      suggestion |-> "Check the file path and branch name"]]
  ELSE [exc |-> "",
        record |-> [status |-> "error",
                    error_message |-> <<"GitHub API error: ", <<ToString(response.status_code)>> >>]]

\* Lines 274-324: the GET request and what is made of its response.
get_request ==
  /\ pc = "get_request"
  /\ \E response \in {ContentsGet(store, defaultBranch, owner_repo,
                                   args.file_path, Ref(args.branch))} \cup HttpFaults :
       LET out == IF response.exc # "" THEN [exc |-> response.exc, record |-> NoResult]
                  ELSE get_github_file_response(args, owner_repo, response)
       IN  /\ exc' = out.exc
           /\ ReturnRecord(IF out.exc # "" THEN get_github_file_except(out.exc)
                           ELSE out.record)
  /\ calls' = calls \cup {Call("http", 284, 10)}
  /\ UNCHANGED <<op, args, owner_repo, report, temp_dir>>
  /\ UNCHANGED envVars

\* ------------------------------------------------------ create_file_via_api
\* except Exception as e (lines 427-431)
create_file_via_api_except(e) ==
  [status |-> "error", error_message |-> <<"API file creation failed: ", <<e>> >>]

\* Lines 372-406: the token check, the URL parse and the encoding of the
\* content.
create_file_via_api(repository_url, file_path, file_content) ==
  /\ Enter("create_file_via_api", [NoArgs EXCEPT !.repository_url = repository_url,
                                                 !.file_path = file_path,
                                                 !.file_content = file_content])
  /\ LET github_token == os_environ_get(environ, "GITHUB_TOKEN")
         match == ParseWrite(repository_url)
     IN  IF ~Truthy(github_token)
           THEN /\ ReturnRecord([status |-> "error",
                                 error_message |-> <<"GitHub token not found", <<>> >>])
                /\ owner_repo' = <<>>
                /\ exc' = ""
         ELSE IF match = {}
           THEN /\ ReturnRecord(
                     [status |-> "error",
                      error_message |-> <<"Invalid GitHub URL format: ", repository_url>>])
                /\ owner_repo' = <<>>
                /\ exc' = ""
         ELSE IF str_encode(file_content) = {}
           THEN /\ ReturnRecord(create_file_via_api_except("UnicodeEncodeError"))
                /\ owner_repo' = CHOOSE g \in match : TRUE
                /\ exc' = "UnicodeEncodeError"
         ELSE /\ pc' = "put_request"
              /\ owner_repo' = CHOOSE g \in match : TRUE
              /\ exc' = ""
              /\ result' = NoResult
  /\ UNCHANGED <<report, temp_dir, calls>>

\* base64.b64encode(file_content.encode('utf-8')).decode('utf-8') (line 401)
encoded_content(file_content) ==
  b64encode(CHOOSE b \in str_encode(file_content) : TRUE)

\* Lines 410-425 for a response.
create_file_via_api_response(a, repo, response) ==
  IF response.status_code \in {200, 201}
    THEN IF response.json = {}
           THEN [exc |-> "JSONDecodeError", record |-> NoResult]
         ELSE [exc |-> "",
               record |-> [status |-> "success",
                           repository |-> repo,
                           file_path |-> a.file_path,
                           commit_sha |-> (CHOOSE d \in response.json : TRUE).commit.sha,
                           message |-> "Successfully created",
                           method |-> "api_only"]]
  ELSE [exc |-> "",
        record |-> [status |-> "error",
                    error_message |-> <<"GitHub API error: ", <<ToString(response.status_code)>> >>]]

\* Lines 408-431: the PUT request and what is made of its response.  A request
\* that reached the API is answered, or its answer is lost (Timeout); one that
\* did not reach it ends in a fault.
put_request ==
  /\ pc = "put_request"
  /\ \E reached \in BOOLEAN :
       \E response \in IF reached
                         THEN {Response(ContentsPutStatus(store, defaultBranch, owner_repo,
                                                          args.file_path),
                                        {[commit |-> [sha |-> "c0ffee"]]}),
                               Raised("Timeout")}
                         ELSE HttpFaults :
         LET out == IF response.exc # "" THEN [exc |-> response.exc, record |-> NoResult]
                    ELSE create_file_via_api_response(args, owner_repo, response)
             record == IF out.exc # "" THEN create_file_via_api_except(out.exc)
                       ELSE out.record
         IN  /\ exc' = out.exc
             /\ ReturnRecord(record)
             /\ store' = IF reached
                           THEN ContentsPutStore(store, defaultBranch, owner_repo,
                                                 args.file_path,
                                                 encoded_content(args.file_content))
                           ELSE store
             /\ created' = IF record.status = "success"
                             THEN created \cup {[repo |-> owner_repo,
                                                 file_path |-> args.file_path,
                                                 file_content |-> args.file_content]}
                             ELSE created
  /\ calls' = calls \cup {Call("http", 408, 10)}
  /\ UNCHANGED <<op, args, owner_repo, report, temp_dir>>
  /\ UNCHANGED <<environ, defaultBranch, tmpdirs>>

\* -------------------------------------------------------- test_simple_clone
\* except Exception as e (lines 243-247)
test_simple_clone_except(e) ==
  [status |-> "error", error_message |-> <<"Clone test failed: ", <<e>> >>]

\* Lines 119-145: the token check, the URL parse and the fresh results record.
test_simple_clone(repository_url) ==
  /\ Enter("test_simple_clone", [NoArgs EXCEPT !.repository_url = repository_url])
  /\ LET github_token == os_environ_get(environ, "GITHUB_TOKEN")
         match == ParseClone(repository_url)
     IN  IF ~Truthy(github_token)
           THEN /\ ReturnRecord([status |-> "error",
                                 error_message |-> <<"No GitHub token found", <<>> >>,
                                 suggestion |-> "Set GITHUB_TOKEN in your .env file"])
                /\ UNCHANGED <<owner_repo, report>>
         ELSE IF match = {}
           THEN /\ ReturnRecord(
                     [status |-> "error",
                      error_message |-> <<"Invalid GitHub URL format: ", repository_url>>])
                /\ UNCHANGED <<owner_repo, report>>
         ELSE /\ pc' = "clone_mkdtemp"
              /\ owner_repo' = CHOOSE g \in match : TRUE
              /\ report' = [status |-> "testing",
                            repository |-> CHOOSE g \in match : TRUE,
                            tests |-> <<>>]
              /\ result' = NoResult
  /\ UNCHANGED <<temp_dir, exc, calls>>

\* The name tempfile.mkdtemp picks: one that does not exist yet.
FreeDirs(dirs) == (1..MaxTmpDirs) \ dirs

\* Lines 149-150: temp_dir = tempfile.mkdtemp(prefix="clone_test_"), outside the
\* inner try: its fault goes to the outermost handler.
clone_mkdtemp ==
  /\ pc = "clone_mkdtemp"
  /\ calls' = calls \cup {Call("mkdtemp", 149, NoTimeout)}
  /\ \/ /\ FreeDirs(tmpdirs) # {}
        /\ temp_dir' = Min(FreeDirs(tmpdirs))
        /\ tmpdirs' = tmpdirs \cup {Min(FreeDirs(tmpdirs))}
        /\ pc' = "clone_run"
        /\ UNCHANGED <<exc, result>>
     \/ /\ exc' = "OSError"
        /\ ReturnRecord(test_simple_clone_except("OSError"))
        /\ UNCHANGED <<temp_dir, tmpdirs>>
  /\ UNCHANGED <<op, args, owner_repo, report>>
  /\ UNCHANGED <<environ, defaultBranch, store, created>>

\* What subprocess.run(['git', 'clone', ...], timeout=30) may end in; git_dir is
\* os.path.exists(os.path.join(repo_dir, '.git')) after it.
CloneOutcomes ==
  {[exc |-> "", returncode |-> 0, git_dir |-> TRUE],
   [exc |-> "", returncode |-> 0, git_dir |-> FALSE],
   [exc |-> "", returncode |-> 128, git_dir |-> FALSE],
   [exc |-> "TimeoutExpired", returncode |-> 0, git_dir |-> FALSE],
   [exc |-> "FileNotFoundError", returncode |-> 0, git_dir |-> FALSE]}

TestEntry(method, status) == [method |-> method, status |-> status]

\* Lines 158-194: the primary clone sub-test's entry and the overall status.
clone_classify(results, outcome) ==
  IF outcome.exc = "TimeoutExpired"
    THEN [results EXCEPT !.tests = Append(@, TestEntry("Token in URL", "timeout"))]
  ELSE IF outcome.exc # ""
    THEN [results EXCEPT !.tests = Append(@, TestEntry("Token in URL", "error"))]
  ELSE IF outcome.returncode = 0
    THEN [results EXCEPT
            !.status = "success",
            !.tests = Append(@, TestEntry("Token in URL", "success"))
                        \o (IF outcome.git_dir
                              THEN <<TestEntry("Repository structure", "success")>>
                              ELSE <<>>)]
  ELSE [results EXCEPT !.tests = Append(@, TestEntry("Token in URL", "failed"))]

\* Lines 152-194: the clone into temp_dir.
clone_run ==
  /\ pc = "clone_run"
  /\ \E outcome \in CloneOutcomes : report' = clone_classify(report, outcome)
  /\ calls' = calls \cup {Call("subprocess", 154, 30)}
  /\ pc' = "clone_cleanup"
  /\ UNCHANGED <<op, args, owner_repo, temp_dir, exc, result>>
  /\ UNCHANGED envVars

\* A removal that removes nothing.
rmtreeKeeps(dirs, d, fails) == dirs
\* shutil.rmtree(d): the directory is gone unless the removal raises.
rmtree(dirs, d, fails) == IF fails THEN dirs ELSE dirs \ {d}

\* A failed removal that also overwrites the overall status.
cleanup_entriesSetsError(results, fails) ==
  IF fails THEN [results EXCEPT !.status = "error",
                                !.tests = Append(@, TestEntry("Cleanup", "warning"))]
  ELSE results
\* Lines 201-206: a removal that raises adds a warning entry.
cleanup_entries(results, fails) ==
  IF fails THEN [results EXCEPT !.tests = Append(@, TestEntry("Cleanup", "warning"))]
  ELSE results

\* Lines 196-206: finally, the best-effort removal of temp_dir.
clone_cleanup ==
  /\ pc = "clone_cleanup"
  /\ IF temp_dir \in tmpdirs
       THEN \E fails \in BOOLEAN :
              /\ tmpdirs' = rmtree(tmpdirs, temp_dir, fails)
              /\ report' = cleanup_entries(report, fails)
       ELSE UNCHANGED <<tmpdirs, report>>
  /\ calls' = calls \cup {Call("rmtree", 200, NoTimeout)}
  /\ pc' = "clone_api"
  /\ UNCHANGED <<op, args, owner_repo, temp_dir, exc, result>>
  /\ UNCHANGED <<environ, defaultBranch, store, created>>

\* What GET /repos/{owner}/{repo} may end in.
RepoLookupOutcomes ==
  {Response(200, {[private |-> FALSE]}), Response(404, {}), Response(403, {})} \cup HttpFaults

\* Lines 209-239: the "API Access" entry for a response.
api_access(results, response) ==
  IF response.exc # ""
    THEN [results EXCEPT !.tests = Append(@, TestEntry("API Access", "error"))]
  ELSE IF response.status_code = 200
    THEN IF response.json = {}
           THEN [results EXCEPT !.tests = Append(@, TestEntry("API Access", "error"))]
           ELSE [results EXCEPT !.tests = Append(@, TestEntry("API Access", "success"))]
  ELSE [results EXCEPT !.tests = Append(@, TestEntry("API Access", "failed"))]

\* Lines 208-241: the repository lookup, then `return results`.
clone_api ==
  /\ pc = "clone_api"
  /\ \E response \in RepoLookupOutcomes :
       /\ report' = api_access(report, response)
       /\ ReturnRecord(api_access(report, response))
  /\ calls' = calls \cup {Call("http", 212, 10)}
  /\ UNCHANGED <<op, args, owner_repo, temp_dir, exc>>
  /\ UNCHANGED envVars

\* ------------------------------------------------------- diagnose_git_setup
\* A check line: its marker ("ok", "warn" or "fail" for the three emoji) and
\* the source line that appends it.  A recommendation: its source line.
Check(marker, line) == [marker |-> marker, line |-> line]
Entries(checks, recommendations) == [checks |-> checks, recommendations |-> recommendations]

\* diagnosis["checks"].append / diagnosis["recommendations"].append
AppendEntries(diagnosis, e) ==
  [diagnosis EXCEPT !.checks = @ \o e.checks,
                    !.recommendations = @ \o e.recommendations]

\* except Exception as e (lines 110-114)
diagnose_git_setup_except(e) ==
  [status |-> "error", error_message |-> <<"Diagnostic failed: ", <<e>> >>]

\* What subprocess.run(['git', '--version'], timeout=5) may end in.
GitVersionOutcomes ==
  {[exc |-> "", returncode |-> 0], [exc |-> "", returncode |-> 1],
   [exc |-> "FileNotFoundError", returncode |-> 0],
   [exc |-> "TimeoutExpired", returncode |-> 0],
   [exc |-> "PermissionError", returncode |-> 0]}

\* Lines 35-44: the entries of check 1 (the exceptions the inner try catches).
check1_entries(outcome) ==
  IF outcome.exc = "FileNotFoundError" THEN Entries(<<Check("fail", 41)>>, <<42>>)
  ELSE IF outcome.exc = "TimeoutExpired" THEN Entries(<<Check("fail", 44)>>, <<>>)
  ELSE IF outcome.returncode = 0 THEN Entries(<<Check("ok", 36)>>, <<>>)
  ELSE Entries(<<Check("fail", 38)>>, <<39>>)

\* Lines 25-44: the fresh diagnosis and check 1, the git installation.  The
\* inner try catches FileNotFoundError and TimeoutExpired only.
diagnose_git_setup ==
  /\ Enter("diagnose_git_setup", NoArgs)
  /\ calls' = calls \cup {Call("subprocess", 34, 5)}
  /\ \E outcome \in GitVersionOutcomes :
       IF outcome.exc \notin {"", "FileNotFoundError", "TimeoutExpired"}
         THEN /\ exc' = outcome.exc
              /\ ReturnRecord(diagnose_git_setup_except(outcome.exc))
              /\ report' = [status |-> "success", checks |-> <<>>, recommendations |-> <<>>]
         ELSE /\ report' = AppendEntries([status |-> "success", checks |-> <<>>,
                                          recommendations |-> <<>>],
                                         check1_entries(outcome))
              /\ pc' = "diag_check2"
              /\ UNCHANGED <<exc, result>>
  /\ UNCHANGED <<owner_repo, temp_dir>>

\* What GET https://api.github.com/user may end in.
UserLookupOutcomes == {Response(200, {[login |-> "octocat"]}), Response(401, {})} \cup HttpFaults

\* Lines 52-63: the entries for the response of the identity lookup.
check2_api_entries(response) ==
  IF response.exc # "" THEN Entries(<<Check("fail", 63)>>, <<>>)
  ELSE IF response.status_code = 200
    THEN IF response.json = {} THEN Entries(<<Check("fail", 63)>>, <<>>)
         ELSE Entries(<<Check("ok", 57)>>, <<>>)
  ELSE Entries(<<Check("fail", 60)>>, <<61>>)

\* Lines 46-67: check 2, the credential token and the identity lookup.
diag_check2 ==
  /\ pc = "diag_check2"
  /\ IF Truthy(os_environ_get(environ, "GITHUB_TOKEN"))
       THEN /\ \E response \in UserLookupOutcomes :
                 report' = AppendEntries(AppendEntries(report, Entries(<<Check("ok", 49)>>, <<>>)),
                                         check2_api_entries(response))
            /\ calls' = calls \cup {Call("http", 54, 10)}
       ELSE /\ report' = AppendEntries(report, Entries(<<Check("fail", 65)>>, <<66>>))
            /\ UNCHANGED calls
  /\ pc' = "diag_check3"
  /\ UNCHANGED <<op, args, owner_repo, temp_dir, exc, result>>
  /\ UNCHANGED envVars

\* What the two `git config --global` reads may end in: each returns a set or
\* an unset value, raises, or never returns (no timeout is passed); the
\* second is not run when the first does not return.
ConfigReads == {"set", "unset", "raises", "blocks"}
Check3Outcomes ==
  {[user |-> u, email |-> e] : u \in {"set", "unset"}, e \in ConfigReads}
    \cup {[user |-> u, email |-> "notrun"] : u \in {"raises", "blocks"}}

\* Lines 74-86: the entries of check 3.
check3_entries(outcome) ==
  IF outcome.user = "raises" \/ outcome.email = "raises"
    THEN Entries(<<Check("fail", 86)>>, <<>>)
  ELSE Entries(<<IF outcome.user = "set" THEN Check("ok", 75) ELSE Check("warn", 77),
                 IF outcome.email = "set" THEN Check("ok", 81) ELSE Check("warn", 83)>>,
               (IF outcome.user = "set" THEN <<>> ELSE <<78>>)
                 \o (IF outcome.email = "set" THEN <<>> ELSE <<84>>))

\* Lines 69-86: check 3, the global identity configuration.
diag_check3 ==
  /\ pc = "diag_check3"
  /\ \E outcome \in Check3Outcomes :
       /\ calls' = calls \cup {Call("subprocess", 71, NoTimeout)}
                      \cup (IF outcome.email = "notrun" THEN {}
                            ELSE {Call("subprocess", 72, NoTimeout)})
       /\ IF outcome.user = "blocks" \/ outcome.email = "blocks"
            THEN /\ pc' = "blocked"
                 /\ UNCHANGED report
            ELSE /\ pc' = "diag_check4"
                 /\ report' = AppendEntries(report, check3_entries(outcome))
  /\ UNCHANGED <<op, args, owner_repo, temp_dir, exc, result>>
  /\ UNCHANGED envVars

\* What the probe of check 4 may end in: mkdtemp raises, or the directory is
\* made and rmtree removes it or raises.
ProbeOutcomes == {"mkdtemp raises", "removed", "rmtree raises"}

\* Check 4 without its failure line when mkdtemp raises.
check4_entriesNoLine(outcome) ==
  IF outcome = "mkdtemp raises" THEN Entries(<<>>, <<95>>)
  ELSE IF outcome = "removed" THEN Entries(<<Check("ok", 91)>>, <<>>)
  ELSE Entries(<<Check("ok", 91), Check("fail", 94)>>, <<95>>)
\* Lines 89-95: the entries of check 4; the success line is appended before
\* rmtree runs, inside the same try.
check4_entries(outcome) ==
  IF outcome = "mkdtemp raises" THEN Entries(<<Check("fail", 94)>>, <<95>>)
  ELSE IF outcome = "removed" THEN Entries(<<Check("ok", 91)>>, <<>>)
  ELSE Entries(<<Check("ok", 91), Check("fail", 94)>>, <<95>>)

\* Lines 88-95: check 4, the temporary-directory probe.
diag_check4 ==
  /\ pc = "diag_check4"
  /\ \E outcome \in ProbeOutcomes :
       /\ outcome # "mkdtemp raises" => FreeDirs(tmpdirs) # {}
       /\ report' = AppendEntries(report, check4_entries(outcome))
       /\ tmpdirs' = IF outcome = "mkdtemp raises" THEN tmpdirs
                     ELSE rmtree(tmpdirs \cup {Min(FreeDirs(tmpdirs))},
                                 Min(FreeDirs(tmpdirs)), outcome = "rmtree raises")
       /\ calls' = calls \cup {Call("mkdtemp", 90, NoTimeout)}
                      \cup (IF outcome = "mkdtemp raises" THEN {}
                            ELSE {Call("rmtree", 92, NoTimeout)})
  /\ pc' = "diag_check5"
  /\ UNCHANGED <<op, args, owner_repo, temp_dir, exc, result>>
  /\ UNCHANGED <<environ, defaultBranch, store, created>>

\* What GET https://github.com may end in.
ReachabilityOutcomes == {Response(200, {}), Response(503, {}), Raised("ConnectionError")}

\* Lines 99-106: the entries of check 5.
check5_entries(response) ==
  IF response.exc # "" THEN Entries(<<Check("fail", 105)>>, <<106>>)
  ELSE IF response.status_code = 200 THEN Entries(<<Check("ok", 101)>>, <<>>)
  ELSE Entries(<<Check("fail", 103)>>, <<>>)

\* Lines 97-108: check 5, the network reachability, then `return diagnosis`.
diag_check5 ==
  /\ pc = "diag_check5"
  /\ \E response \in ReachabilityOutcomes :
       /\ report' = AppendEntries(report, check5_entries(response))
       /\ ReturnRecord(AppendEntries(report, check5_entries(response)))
  /\ calls' = calls \cup {Call("http", 99, 10)}
  /\ UNCHANGED <<op, args, owner_repo, temp_dir, exc>>
  /\ UNCHANGED envVars

\* ------------------------------------------------------------ fix_git_setup
\* How a command of fix_git_setup may end: it exits with 0, it exits with
\* another code, starting it raises (git is missing: FileNotFoundError), or,
\* there being no timeout, it never returns.
CommandEnds == {"exit 0", "exit nonzero", "raises", "blocks"}

\* A call of fix_git_setup together with how it ended.
Ended(kind, line, end) ==
  [kind |-> kind, line |-> line, timeout |-> NoTimeout, ended |-> end]

\* Lines 333-338: fix 1, the two `git config --global` writes with check=True
\* and no timeout.  With check=True a nonzero exit raises CalledProcessError,
\* so both a nonzero exit and a failure to start reach the handler of line 337.
fix1_line(outcome) == IF outcome = "ok" THEN Check("ok", 336) ELSE Check("fail", 338)

fix_git_setup ==
  /\ Enter("fix_git_setup", NoArgs)
  /\ \E first \in CommandEnds, second \in CommandEnds :
       /\ calls' = calls \cup {Ended("subprocess", 334, first)}
                      \cup (IF first = "exit 0" THEN {Ended("subprocess", 335, second)}
                            ELSE {})
       /\ IF first = "blocks" \/ (first = "exit 0" /\ second = "blocks")
            THEN /\ pc' = "blocked"
                 /\ report' = [status |-> "success", fixes_applied |-> <<>>]
            ELSE LET outcome == IF first = "exit 0" /\ second = "exit 0"
                                  THEN "ok" ELSE "fails"
                 IN  /\ pc' = "fix2"
                     /\ report' = [status |-> "success",
                                   fixes_applied |-> <<fix1_line(outcome)>>]
  /\ UNCHANGED <<owner_repo, temp_dir, exc, result>>

\* Lines 340-346: fix 2, the credential helper when `which` finds its binary
\* (os.system returns the exit status; nonzero: the binary is not on the path
\* and the step adds no line).
fix2 ==
  /\ pc = "fix2"
  /\ \E which \in {"exit 0", "exit nonzero", "blocks"}, config \in CommandEnds :
       /\ calls' = calls \cup {Ended("os.system", 342, which)}
                      \cup (IF which = "exit 0" THEN {Ended("subprocess", 343, config)}
                            ELSE {})
       /\ IF which = "blocks" \/ (which = "exit 0" /\ config = "blocks")
            THEN /\ pc' = "blocked"
                 /\ UNCHANGED report
            ELSE /\ pc' = "fix3"
                 /\ report' = [report EXCEPT !.fixes_applied =
                                 @ \o (IF which # "exit 0" THEN <<>>
                                       ELSE IF config = "exit 0" THEN <<Check("ok", 344)>>
                                       ELSE <<Check("warn", 346)>>)]
  /\ UNCHANGED <<op, args, owner_repo, temp_dir, exc, result>>
  /\ UNCHANGED envVars

\* Lines 348-366: fix 3, `git credential reject` with no check and no timeout,
\* then the success record.  The exit code is not looked at: only an exception
\* reaches the handler of line 353.
fix3_line(end) == IF end = "raises" THEN Check("warn", 354) ELSE Check("ok", 352)

fix3 ==
  /\ pc = "fix3"
  /\ \E end \in CommandEnds :
       /\ calls' = calls \cup {Ended("subprocess", 350, end)}
       /\ IF end = "blocks"
            THEN /\ pc' = "blocked"
                 /\ UNCHANGED <<report, result>>
            ELSE LET fixes == report.fixes_applied \o <<fix3_line(end)>>
                 IN  /\ report' = [report EXCEPT !.fixes_applied = fixes]
                     /\ ReturnRecord([status |-> "success",
                                      fixes_applied |-> fixes,
                                      message |-> "Applied common Git fixes"])
  /\ UNCHANGED <<op, args, owner_repo, temp_dir, exc>>
  /\ UNCHANGED envVars

\* ------------------------------------------------------------ specifications
\* The three operations that parse a URL, applied to every URL of ParseUrls,
\* up to the parse: a call that fails the token check or the parse returns
\* there.
InitParse == Init /\ defaultBranch = "main"

NextParse ==
  \/ pc = "idle" /\ \E u \in ParseUrls : test_simple_clone(u)
  \/ pc = "idle" /\ \E u \in ParseUrls : get_github_file(u, "README.md", "main")
  \/ pc = "idle" /\ \E u \in ParseUrls : create_file_via_api(u, "new.txt", <<65>>)
  \/ Return

SpecParse == InitParse /\ [][NextParse]_vars

Next ==
  \/ pc = "idle" /\ \E u \in CallUrls : test_simple_clone(u)
  \/ clone_mkdtemp
  \/ clone_run
  \/ clone_cleanup
  \/ clone_api
  \/ pc = "idle" /\ \E u \in CallUrls, p \in Paths, b \in BranchArgs :
                     get_github_file(u, p, b)
  \/ get_request
  \/ pc = "idle" /\ \E u \in CallUrls, p \in Paths, t \in Texts :
                     create_file_via_api(u, p, t)
  \/ put_request
  \/ diagnose_git_setup
  \/ diag_check2
  \/ diag_check3
  \/ diag_check4
  \/ diag_check5
  \/ fix_git_setup
  \/ fix2
  \/ fix3
  \/ Return

Spec == Init /\ [][Next]_vars

\* ------------------------------------------------------------------- claims
UrlOps == {"test_simple_clone", "get_github_file", "create_file_via_api"}

\* GITHUB_TOKEN is absent or empty.
TokenAbsentOrEmpty == \A p \in environ : p[1] = "GITHUB_TOKEN" => p[2] = ""

MissingCredentialTexts ==
  {"No GitHub token found",
   "GitHub token not found. Please set GITHUB_TOKEN in your .env file.",
   "GitHub token not found"}

HasEntry(record, method, status) ==
  \E k \in DOMAIN record.tests : record.tests[k] = TestEntry(method, status)

CountMethod(record, method) ==
  Cardinality({k \in DOMAIN record.tests : record.tests[k].method = method})

CloneTested == pc = "done" /\ op = "test_simple_clone" /\ temp_dir # 0

\* C1 as stated: whenever test_simple_clone created its temporary directory,
\* the directory does not exist when the call returns, whatever the clone and
\* the cleanup ended in.
C1_TempDirGoneOnReturn == CloneTested => temp_dir \notin tmpdirs

\* C1 amended: when test_simple_clone created its temporary directory, then on
\* every outcome of the clone the directory does not exist when the call
\* returns unless the removal itself raised, and then a "Cleanup" warning entry
\* is in the returned tests.
C1_TempDirGoneUnlessRemovalRaised ==
  CloneTested => (temp_dir \in tmpdirs => HasEntry(result, "Cleanup", "warning"))

C1_Witness ==
  /\ CloneTested
  /\ HasEntry(result, "Token in URL", "timeout")
  /\ temp_dir \notin tmpdirs

\* C2: with GITHUB_TOKEN absent or empty, each of the three operations that
\* need it returns at once status = error with its missing-credential message,
\* whatever its arguments, having made no external call (no subprocess, no
\* HTTP request, no mkdtemp).
C2_MissingTokenFailsFast ==
  (op \in UrlOps /\ TokenAbsentOrEmpty) =>
    /\ pc = "done"
    /\ result.status = "error"
    /\ result.error_message[1] \in MissingCredentialTexts
    /\ calls = {}

C2_Witness ==
  /\ pc = "done"
  /\ op = "create_file_via_api"
  /\ environ = {<<"GITHUB_TOKEN", "">>}
  /\ args.repository_url = <<"not-a-url">>
  /\ result.error_message[1] = "GitHub token not found"

\* The URL holds github.com/<owner>/<name> somewhere: the claim's well-formed.
ContainsRepoRef(url) ==
  \E i \in 1..Len(url) :
    /\ i + 4 <= Len(url)
    /\ url[i] = "github.com" /\ url[i + 1] = "/"
    /\ \E j \in (i + 3)..(Len(url) - 1) :
         /\ url[j] = "/"
         /\ \A k \in (i + 2)..(j - 1) : url[k] \notin {"/", "https://", "http://"}
         /\ url[j + 1] \notin {"/", "https://", "http://"}

WithoutProtocols(url) == SelectSeq(url, LAMBDA piece : piece # "https://" /\ piece # "http://")

\* s ends with github.com/<owner>/<name> and at most one "/" after it.
EndsWithRepoRef(s) ==
  \E i \in 1..Len(s) :
    /\ i + 4 <= Len(s)
    /\ s[i] = "github.com" /\ s[i + 1] = "/"
    /\ \E j \in (i + 3)..(Len(s) - 1) :
         LET e == IF s[Len(s)] = "/" THEN Len(s) - 1 ELSE Len(s)
         IN  /\ s[j] = "/"
             /\ e > j
             /\ \A k \in ((i + 2)..(j - 1)) \cup ((j + 1)..e) : s[k] # "/"

InvalidUrlReturned ==
  /\ pc = "done"
  /\ result.status = "error"
  /\ result.error_message[1] = "Invalid GitHub URL format: "
  /\ result.error_message[2] = args.repository_url
  /\ calls = {}

\* C3 as stated: for every URL that does not contain github.com/<owner>/<name>
\* each parsing operation returns status = error with the invalid-format text
\* and the input, with no external call, whether or not a token is set.
C3_MalformedUrlRejectedAlways ==
  (op \in UrlOps /\ ~ContainsRepoRef(args.repository_url)) => InvalidUrlReturned

\* C3 amended: for every URL that, with "https://" and "http://" removed, does
\* not end with github.com/<owner>/<name> (then ".git" and "/" at most), each
\* parsing operation returns status = error before any external call; the
\* message is the invalid-format text with the input when a non-empty token
\* is set, and the missing-credential text when it is not.
C3_MalformedUrlRejected ==
  (op \in UrlOps /\ ~EndsWithRepoRef(WithoutProtocols(args.repository_url))) =>
    IF TokenAbsentOrEmpty
      THEN /\ pc = "done"
           /\ result.status = "error"
           /\ result.error_message[1] \in MissingCredentialTexts
           /\ calls = {}
      ELSE InvalidUrlReturned

C3_Witness ==
  /\ op = "test_simple_clone"
  /\ ~TokenAbsentOrEmpty
  /\ args.repository_url = <<"not-a-url">>
  /\ InvalidUrlReturned

\* C4 as stated: diagnose_git_setup always returns a report whose checks list
\* has exactly five entries.
C4_ExactlyFiveChecks ==
  (pc = "done" /\ op = "diagnose_git_setup") =>
    /\ "checks" \in DOMAIN result
    /\ Len(result.checks) = 5

\* The sub-check (1..5) whose code holds the source line.
SubCheck(line) ==
  IF line <= 44 THEN 1 ELSE IF line <= 67 THEN 2 ELSE IF line <= 86 THEN 3
  ELSE IF line <= 95 THEN 4 ELSE 5

ChecksOf(record, k) == {i \in DOMAIN record.checks : SubCheck(record.checks[i].line) = k}
FailedChecksOf(record, k) == {i \in ChecksOf(record, k) : record.checks[i].marker = "fail"}
RecommendationsOf(record, k) ==
  {i \in DOMAIN record.recommendations : SubCheck(record.recommendations[i]) = k}

\* C4 amended: when no fault reaches its outermost handler, diagnose_git_setup
\* returns status = success with a checks list that holds, in the order of the
\* sub-checks, one line of sub-check 1, one or two lines of each of the
\* sub-checks 2, 3 and 4 and one line of sub-check 5: five to eight lines.
\* When `git --version` raises anything but not-found or timeout the record is
\* the error record, which has no checks list.
C4_OneOrTwoLinesPerSubCheck ==
  (pc = "done" /\ op = "diagnose_git_setup") =>
    IF exc = ""
      THEN /\ result.status = "success"
           /\ Len(result.checks) \in 5..8
           /\ Cardinality(ChecksOf(result, 1)) = 1
           /\ \A k \in {2, 3, 4} : Cardinality(ChecksOf(result, k)) \in {1, 2}
           /\ Cardinality(ChecksOf(result, 5)) = 1
           /\ \A i, j \in DOMAIN result.checks :
                i < j => SubCheck(result.checks[i].line) <= SubCheck(result.checks[j].line)
      ELSE /\ result.status = "error"
           /\ "checks" \notin DOMAIN result

C4_Witness ==
  /\ pc = "done"
  /\ op = "diagnose_git_setup"
  /\ exc = ""
  /\ Len(result.checks) = 8

\* C5: in every report diagnose_git_setup returns, each sub-check appended at
\* least as many recommendations as failure-marked check lines.
C5_FailureLinesHaveRecommendations ==
  (pc = "done" /\ op = "diagnose_git_setup" /\ exc = "") =>
    \A k \in 1..5 :
      Cardinality(RecommendationsOf(result, k)) >= Cardinality(FailedChecksOf(result, k))

OuterPrefix(name) ==
  IF name = "diagnose_git_setup" THEN "Diagnostic failed: "
  ELSE IF name = "test_simple_clone" THEN "Clone test failed: "
  ELSE IF name = "get_github_file" THEN "Unexpected error: "
  ELSE IF name = "fix_git_setup" THEN "Fix attempt failed: "
  ELSE "API file creation failed: "

\* C6: every operation that returns, returns a record whose status is success,
\* error or testing, whatever faults its subprocess, HTTP, filesystem and
\* decoding steps raised; a fault caught by the outermost handler yields
\* status = error with the operation's error_message.
C6_FaultsBecomeErrorRecords ==
  pc = "done" =>
    /\ result.status \in {"success", "error", "testing"}
    /\ exc # "" =>
         /\ result.status = "error"
         /\ "error_message" \in DOMAIN result
         /\ result.error_message = <<OuterPrefix(op), <<exc>> >>

C6_Witness ==
  /\ pc = "done"
  /\ op = "get_github_file"
  /\ exc = "UnicodeDecodeError"
  /\ result.status = "error"

\* C7: every blocking subprocess invocation and HTTP call of the operations
\* carries an explicit timeout, and no operation is left waiting forever for
\* an external command.
C7_EveryCallBounded ==
  /\ \A c \in calls : c.kind \in {"subprocess", "os.system", "http"} => c.timeout > 0
  /\ pc # "blocked"

ReadOf(w) ==
  /\ pc = "done"
  /\ op = "get_github_file"
  /\ owner_repo = w.repo
  /\ args.file_path = w.file_path

\* The read request was answered by the API from what it stores: no transport
\* fault, no server error, no body that is not JSON.
ReadAnswered ==
  /\ exc \notin {"ConnectionError", "Timeout", "JSONDecodeError"}
  /\ result.status = "error" => result.error_message[1] # "GitHub API error: "

RoundTrips(w) == result.status = "success" /\ result.content = w.file_content

\* C8 as stated: after create_file_via_api succeeded for a new path, a read of
\* that path that the API answers returns success with the text written, for
\* every branch argument.
C8_RoundTripAnyBranch ==
  \A w \in created : (ReadOf(w) /\ ReadAnswered) => RoundTrips(w)

\* C8 amended: after create_file_via_api succeeded for a new path, a read of
\* that path that the API answers returns success with the text written when
\* the branch argument is "main" (no qualifier is sent and the default branch
\* is read) or names the repository's default branch, the branch the write
\* went to.
C8_RoundTripOnDefaultBranch ==
  \A w \in created :
    (ReadOf(w) /\ ReadAnswered /\ args.branch \in {"main", defaultBranch}) => RoundTrips(w)

C8_Witness ==
  \E w \in created :
    /\ ReadOf(w)
    /\ defaultBranch = "master"
    /\ args.branch = "master"
    /\ w.file_content = <<8364>>
    /\ RoundTrips(w)

NamePieces == {"o", "n", "github.com", ".git"}

\* A repository or owner name: pieces without "/", not ending in ".git" (a
\* trailing ".git" is the variant's suffix).
WellFormedName(x) ==
  /\ x # <<>>
  /\ \A k \in 1..Len(x) : x[k] \in NamePieces
  /\ x[Len(x)] # ".git"

IsPrefixOf(p, s) == Len(p) <= Len(s) /\ SubSeq(s, 1, Len(p)) = p
IsSuffixOf(p, s) == Len(p) <= Len(s) /\ SubSeq(s, Len(s) - Len(p) + 1, Len(s)) = p

\* The (owner, name) pairs the URL is a variant of: the URL is
\* [http://|https://]github.com/<owner>/<name>[.git][/].
RefsOf(url) ==
  UNION { LET core == SubSeq(url, Len(v[1]) + 3, Len(url) - Len(v[2]) - Len(v[3]))
          IN  IF /\ IsPrefixOf(v[1] \o <<"github.com", "/">>, url)
                 /\ IsSuffixOf(v[2] \o v[3], url)
                 /\ Len(v[1]) + 2 + Len(v[2]) + Len(v[3]) <= Len(url)
                THEN {<<SubSeq(core, 1, j - 1), SubSeq(core, j + 1, Len(core))>> :
                        j \in {i \in 1..Len(core) :
                                 /\ core[i] = "/"
                                 /\ WellFormedName(SubSeq(core, 1, i - 1))
                                 /\ WellFormedName(SubSeq(core, i + 1, Len(core)))}}
                ELSE {}
          : v \in Prefixes \X {<<>>, <<".git">>} \X SlashSuffixes }

\* C9: every variant of a well-formed reference github.com/<owner>/<name> (no
\* prefix, http://, https://; with or without ".git"; with or without a final
\* "/") is parsed to that (owner, name) pair by each of the three operations.
C9_VariantsParseAlike ==
  (op \in UrlOps /\ ~TokenAbsentOrEmpty) =>
    \A ref \in RefsOf(args.repository_url) : pc # "done" /\ owner_repo = ref

C9_Witness ==
  /\ op = "create_file_via_api"
  /\ args.repository_url = <<"http://", "github.com", "/", "o", "/", "n", ".git", "/">>
  /\ << <<"o">>, <<"n">> >> \in RefsOf(args.repository_url)
  /\ pc = "put_request"
  /\ owner_repo = << <<"o">>, <<"n">> >>

\* C10: when test_simple_clone ran its sub-tests, the returned status is
\* success exactly when the "Token in URL" sub-test succeeded and testing
\* otherwise, whatever the cleanup and the API lookup ended in; the tests hold
\* exactly one "Token in URL" entry and end with the one "API Access" entry.
C10_StatusFollowsCloneOnly ==
  CloneTested =>
    /\ result.status = "success" <=> HasEntry(result, "Token in URL", "success")
    /\ result.status \in {"success", "testing"}
    /\ CountMethod(result, "Token in URL") = 1
    /\ CountMethod(result, "API Access") = 1
    /\ result.tests[Len(result.tests)].method = "API Access"

C10_Witness ==
  /\ CloneTested
  /\ result.status = "testing"
  /\ HasEntry(result, "Token in URL", "failed")
  /\ HasEntry(result, "Cleanup", "warning")
  /\ HasEntry(result, "API Access", "error")

\* The three steps of fix_git_setup: the commands whose failure fails the
\* step, the line recorded on success and the line recorded on failure.
FixSteps ==
  { [commands |-> {334, 335}, first |-> 334, ok |-> Check("ok", 336), failed |-> Check("fail", 338)],
    [commands |-> {343},      first |-> 342, ok |-> Check("ok", 344), failed |-> Check("warn", 346)],
    [commands |-> {350},      first |-> 350, ok |-> Check("ok", 352), failed |-> Check("warn", 354)] }

FixesReturned == pc = "done" /\ op = "fix_git_setup"

StepRan(step) == \E c \in calls : c.line = step.first

StepFailed(step) ==
  \E c \in calls : c.line \in step.commands /\ c.ended \in {"exit nonzero", "raises"}

Recorded(line) == \E i \in 1..Len(result.fixes_applied) : result.fixes_applied[i] = line

\* C11: when fix_git_setup returns, each of its three steps was run whatever
\* the other steps ended in, a step whose command raised or exited nonzero has
\* its warning/failure line in fixes_applied and no success line, and the
\* returned status is success.
C11_StepFailuresRecorded ==
  FixesReturned =>
    /\ result.status = "success"
    /\ \A step \in FixSteps :
         /\ StepRan(step)
         /\ StepFailed(step) => (Recorded(step.failed) /\ ~Recorded(step.ok))

====
